---- MODULE Spec2Model ----
(***************************************************************************)
(* Model of tree/treeplayer/src/TDFInterface.cxx: the helpers that bind    *)
(* string expressions to the TDataFrame graph.                             *)
(*                                                                         *)
(* Strings.  A column name and an expression are sequences of one-         *)
(* character strings.  A generated text (a std::stringstream) is a         *)
(* sequence of tokens, a token being the sequence of strings one `<<`      *)
(* appends: Lit("namespace ") for a literal, the name itself for a name.   *)
(* The empty std::string is the empty sequence and appends nothing.        *)
(***************************************************************************)
EXTENDS Integers, Sequences, FiniteSets, TLC

VARIABLES pc, args, ret, iNs, cur, requests, nsHistory, graphNodes

vars == <<pc, args, ret, iNs, cur, requests, nsHistory, graphNodes>>

(***************************************************************************)
(* Bounds of the model.                                                    *)
(***************************************************************************)
MaxExprLen == 3
MaxCols == 2
MaxCount == 2
MaxSlots == 2
MaxInvocations == 2

(***************************************************************************)
(* Generic helpers.                                                        *)
(***************************************************************************)
SeqsUpTo(S, n) == UNION {[1..k -> S] : k \in 0..n}

Contains(s, x) == \E i \in 1..Len(s) : s[i] = x

Count(s, x) == Cardinality({i \in 1..Len(s) : s[i] = x})

NoDuplicates(s) == \A i, j \in 1..Len(s) : i # j => s[i] # s[j]

Lit(str) == <<str>>

\* operator<< on a stream: the empty string appends nothing
Emit(tok) == IF tok = <<>> THEN <<>> ELSE <<tok>>

\* ss.seekp(-2, ss.cur) right after a two-character ", " was written: what is
\* written next overwrites that separator
SeekBack2(text) == SubSeq(text, 1, Len(text) - 1)

(***************************************************************************)
(* Characters.  WordChars are the members of [a-zA-Z0-9_] in the alphabet. *)
(***************************************************************************)
Chars == {"a", "b", "+", "."}
WordChars == {"a", "b"}
Pad == " "

\* the column names the inputs are drawn from
ColNames == {<<"a">>, <<"a", "b">>, <<"a", ".", "b">>}

Exprs == SeqsUpTo(Chars, MaxExprLen)
ColLists == SeqsUpTo(ColNames, MaxCols)
ShortColLists == SeqsUpTo(ColNames, MaxCols - 1)

\* TObjArray *branches: a null pointer, or the array of branch names
NullBranches == [null |-> TRUE, names |-> <<>>]
BranchArray(names) == [null |-> FALSE, names |-> names]

(***************************************************************************)
(* TRegexp.  A pattern is a sequence of elements: regexBit, the bracket    *)
(* expression, or one character of the name spliced between the two.  In a *)
(* pattern "." matches any character; the other characters of the alphabet *)
(* that occur in ColNames match themselves.                                *)
(***************************************************************************)
regexBit == "[^a-zA-Z0-9_]"

kNPOS == 0 - 1

MatchesElem(pe, c) ==
    IF pe = regexBit THEN c \notin WordChars
    ELSE IF pe = "." THEN TRUE
    ELSE pe = c

MatchAt(pattern, str, i) ==
    /\ i + Len(pattern) - 1 <= Len(str)
    /\ \A k \in 1..Len(pattern) : MatchesElem(pattern[k], str[i + k - 1])

\* TRegexp::Index: the 0-based position of the first match, or kNPOS
Index(pattern, str) ==
    LET hits == {i \in 1..Len(str) : MatchAt(pattern, str, i)}
    IN  IF hits = {} THEN kNPOS
        ELSE (CHOOSE i \in hits : \A j \in hits : i <= j) - 1

(***************************************************************************)
(* FindUsedColumnNames                                                     *)
(***************************************************************************)
PaddedExpr(expression) == <<Pad>> \o expression \o <<Pad>>

NameMatches(brName, paddedExpr) ==
    LET bNameRegexContent == <<regexBit>> \o brName \o <<regexBit>>
    IN  kNPOS # Index(bNameRegexContent, paddedExpr)

\* the first two loops: every matching name is appended
RECURSIVE AppendMatching(_, _, _)
AppendMatching(usedBranches, names, paddedExpr) ==
    IF names = <<>> THEN usedBranches
    ELSE AppendMatching(
             IF NameMatches(Head(names), paddedExpr)
             THEN Append(usedBranches, Head(names))
             ELSE usedBranches,
             Tail(names), paddedExpr)

\* the third loop: a matching name is appended if not already found
RECURSIVE AppendMatchingDs(_, _, _)
AppendMatchingDs(usedBranches, dsColumns, paddedExpr) ==
    IF dsColumns = <<>> THEN usedBranches
    ELSE AppendMatchingDs(
             IF NameMatches(Head(dsColumns), paddedExpr)
                /\ ~Contains(usedBranches, Head(dsColumns))
             THEN Append(usedBranches, Head(dsColumns))
             ELSE usedBranches,
             Tail(dsColumns), paddedExpr)

FindUsedColumnNames(expression, branches, customColumns, dsColumns) ==
    LET paddedExpr == PaddedExpr(expression)
        afterCustom == AppendMatching(<<>>, customColumns, paddedExpr)
        afterTree == IF branches.null THEN afterCustom
                     ELSE AppendMatching(afterCustom, branches.names, paddedExpr)
    IN  AppendMatchingDs(afterTree, dsColumns, paddedExpr)

(***************************************************************************)
(* Variables the specification at hand does not use.                       *)
(***************************************************************************)
NoCall == [op |-> "none"]

JitIdle ==
    /\ iNs = 0
    /\ cur = NoCall
    /\ requests = <<>>
    /\ nsHistory = <<>>
    /\ graphNodes = 0

JitUnchanged == UNCHANGED <<iNs, cur, requests, nsHistory, graphNodes>>

(***************************************************************************)
(* SpecUsed: one call of FindUsedColumnNames on inputs drawn by Init.      *)
(***************************************************************************)
UsedInputs ==
    [expression : Exprs,
     branches : {NullBranches} \cup {BranchArray(n) : n \in ShortColLists},
     customColumns : ColLists,
     dsColumns : ShortColLists]

InitUsed ==
    /\ pc = "call"
    /\ args \in UsedInputs
    /\ ret = <<>>
    /\ JitIdle

CallFindUsedColumnNames ==
    /\ pc = "call"
    /\ ret' = FindUsedColumnNames(args.expression, args.branches,
                                  args.customColumns, args.dsColumns)
    /\ pc' = "done"
    /\ UNCHANGED args
    /\ JitUnchanged

NextUsed == CallFindUsedColumnNames

SpecUsed == InitUsed /\ [][NextUsed]_vars

\* name n occurs in the expression as an isolated token: a literal occurrence
\* whose neighbour on each side is the start/end of the expression or a
\* character outside [a-zA-Z0-9_]
IsolatedOccurrence(n, expression) ==
    \E i \in 1..(Len(expression) - Len(n) + 1) :
        /\ \A k \in 1..Len(n) : expression[i + k - 1] = n[k]
        /\ (i = 1 \/ expression[i - 1] \notin WordChars)
        /\ (i + Len(n) - 1 = Len(expression)
              \/ expression[i + Len(n)] \notin WordChars)

\* C1: the list returned by FindUsedColumnNames contains no name twice,
\* whatever the three input lists are (a name in several lists, or twice in
\* one list, included).
C1_NoDuplicates == pc = "done" => NoDuplicates(ret)

\* C2: a known column name is returned only if the expression contains an
\* occurrence of exactly that name delimited on both sides by the start/end
\* of the expression or a character outside [a-zA-Z0-9_].
C2_OnlyIsolatedTokens ==
    pc = "done" =>
        \A i \in 1..Len(ret) : IsolatedOccurrence(ret[i], args.expression)

(***************************************************************************)
(* GetValidatedColumnNames and the helpers it calls.                       *)
(***************************************************************************)
Returned(value) == [status |-> "return", value |-> value, what |-> <<>>]

Thrown(what) == [status |-> "throw", value |-> <<>>, what |-> what]

\* TDataSource *ds: a null pointer, or a data source with its column names
NullDS == [null |-> TRUE, columns |-> <<>>]
DataSource(columns) == [null |-> FALSE, columns |-> columns]

Take(s, n) == SubSeq(s, 1, n)

\* SelectColumns: the supplied names when there are any (their number must
\* be the required one), else the first nRequiredNames default names
SelectColumns(nRequiredNames, names, defaultNames) ==
    IF names = <<>>
    THEN IF Len(defaultNames) < nRequiredNames
         THEN Thrown(<<Lit("ColumnCountMismatch")>>)
         ELSE Returned(Take(defaultNames, nRequiredNames))
    ELSE IF Len(names) # nRequiredNames
         THEN Thrown(<<Lit("ColumnCountMismatch")>>)
         ELSE Returned(names)

\* FindUnknownColumns: the required names that are no branch of the tree, no
\* custom column and no data-source column, each listed once
RECURSIVE FindUnknownColumnsFrom(_, _, _)
FindUnknownColumnsFrom(unknownColumns, requiredCols, known) ==
    IF requiredCols = <<>> THEN unknownColumns
    ELSE FindUnknownColumnsFrom(
             IF Head(requiredCols) \notin known
                /\ ~Contains(unknownColumns, Head(requiredCols))
             THEN Append(unknownColumns, Head(requiredCols))
             ELSE unknownColumns,
             Tail(requiredCols), known)

Range(s) == {s[i] : i \in 1..Len(s)}

FindUnknownColumns(requiredCols, tree, definedCols, dataSourceColumns) ==
    FindUnknownColumnsFrom(<<>>, requiredCols,
        (IF tree.null THEN {} ELSE Range(tree.names))
            \cup Range(definedCols) \cup Range(dataSourceColumns))

\* the loop over unknownColumns: `unknowns << delim << unknown; delim = ','`
RECURSIVE UnknownsText(_, _)
UnknownsText(delim, unknownColumns) ==
    IF unknownColumns = <<>> THEN <<>>
    ELSE Emit(Lit(delim)) \o Emit(Head(unknownColumns))
             \o UnknownsText(",", Tail(unknownColumns))

\* a plausible slip: the plural is chosen as soon as there is one unknown name
UnknownColumnsWhatAlwaysPlural(unknownColumns) ==
    LET delim == IF Len(unknownColumns) > 0 THEN "s: " ELSE ": "
    IN  <<Lit("Unknown column")>> \o UnknownsText(delim, unknownColumns)

UnknownColumnsWhat(unknownColumns) ==
    LET delim == IF Len(unknownColumns) > 1 THEN "s: " ELSE ": "
    IN  <<Lit("Unknown column")>> \o UnknownsText(delim, unknownColumns)

\* a plausible slip: the supplied list is returned instead of the selected one
GetValidatedColumnNamesReturnsSupplied(lm, nColumns, columns, validCustomColumns, ds) ==
    LET selected == SelectColumns(nColumns, columns, lm.defaultColumns)
        unknownColumns ==
            FindUnknownColumns(selected.value, lm.tree, validCustomColumns,
                               IF ds.null THEN <<>> ELSE ds.columns)
    IN  IF selected.status = "throw" THEN selected
        ELSE IF unknownColumns # <<>>
        THEN Thrown(UnknownColumnsWhat(unknownColumns))
        ELSE Returned(columns)

GetValidatedColumnNames(lm, nColumns, columns, validCustomColumns, ds) ==
    LET selected == SelectColumns(nColumns, columns, lm.defaultColumns)
        unknownColumns ==
            FindUnknownColumns(selected.value, lm.tree, validCustomColumns,
                               IF ds.null THEN <<>> ELSE ds.columns)
    IN  IF selected.status = "throw" THEN selected
        ELSE IF unknownColumns # <<>>
        THEN Thrown(UnknownColumnsWhat(unknownColumns))
        ELSE Returned(selected.value)

(***************************************************************************)
(* SpecValidate: one call of GetValidatedColumnNames.                      *)
(***************************************************************************)
ValidateInputs ==
    [lm : [defaultColumns : ColLists,
           tree : {NullBranches, BranchArray(<<<<"a">>>>)}],
     nColumns : 0..MaxCount,
     columns : ColLists,
     validCustomColumns : {<<>>, <<<<"a", "b">>>>},
     ds : {NullDS, DataSource(<<<<"a">>>>), DataSource(<<<<"a", ".", "b">>>>)}]

InitValidate ==
    /\ pc = "call"
    /\ args \in ValidateInputs
    /\ ret = Returned(<<>>)
    /\ JitIdle

CallGetValidatedColumnNames ==
    /\ pc = "call"
    /\ ret' = GetValidatedColumnNames(args.lm, args.nColumns, args.columns,
                                      args.validCustomColumns, args.ds)
    /\ pc' = "done"
    /\ UNCHANGED args
    /\ JitUnchanged

NextValidate == CallGetValidatedColumnNames

SpecValidate == InitValidate /\ [][NextValidate]_vars

\* what the claims call the selected columns, and when the selection succeeds
SuppliedCountOk ==
    IF args.columns = <<>>
    THEN Len(args.lm.defaultColumns) >= args.nColumns
    ELSE Len(args.columns) = args.nColumns

ExpectedSelection ==
    IF args.columns = <<>>
    THEN [i \in 1..args.nColumns |-> args.lm.defaultColumns[i]]
    ELSE args.columns

KnownColumns ==
    (IF args.lm.tree.null THEN {} ELSE Range(args.lm.tree.names))
        \cup Range(args.validCustomColumns)
        \cup (IF args.ds.null THEN {} ELSE Range(args.ds.columns))

UnknownSelected == Range(ExpectedSelection) \ KnownColumns

\* C3: a supplied list of size K > 0 is the result unchanged and the call
\* fails if K differs from the requested count; an empty supplied list gives
\* the first requestedCount default columns and the call fails if there are
\* fewer defaults; a successful call returns exactly requestedCount names.
C3_Selection ==
    pc = "done" =>
        /\ ~SuppliedCountOk => ret.status = "throw"
        /\ ret.status = "return" =>
              /\ ret.value = ExpectedSelection
              /\ Len(ret.value) = args.nColumns

C3_Witness ==
    /\ pc = "done"
    /\ ret.status = "return"
    /\ args.columns = <<>>
    /\ args.nColumns > 0
    /\ Len(args.lm.defaultColumns) > args.nColumns

C4_WitnessSeveral ==
    /\ pc = "done"
    /\ SuppliedCountOk
    /\ ret.status = "throw"
    /\ Cardinality(UnknownSelected) > 1

(***************************************************************************)
(* FindUndefinedDSColumns                                                  *)
(***************************************************************************)
\* the loop `for i: mustBeDefined[i] = (find(definedCols, requestedCols[i]) == end)`
RECURSIVE MustBeDefinedLoop(_, _, _, _)
MustBeDefinedLoop(mustBeDefined, i, requestedCols, definedCols) ==
    IF i > Len(requestedCols) THEN mustBeDefined
    ELSE MustBeDefinedLoop(
             [mustBeDefined EXCEPT ![i] = ~Contains(definedCols, requestedCols[i])],
             i + 1, requestedCols, definedCols)

\* a plausible slip: `!=` for `==` in the comparison with end()
FindUndefinedDSColumnsInverted(requestedCols, definedCols) ==
    LET nColumns == Len(requestedCols)
        flags == MustBeDefinedLoop([i \in 1..nColumns |-> FALSE], 1,
                                   requestedCols, definedCols)
    IN  [i \in 1..nColumns |-> ~flags[i]]

FindUndefinedDSColumns(requestedCols, definedCols) ==
    LET nColumns == Len(requestedCols)
    IN  MustBeDefinedLoop([i \in 1..nColumns |-> FALSE], 1,
                          requestedCols, definedCols)

InitDS ==
    /\ pc = "call"
    /\ args \in [requestedCols : ColLists, definedCols : ColLists]
    /\ ret = <<>>
    /\ JitIdle

CallFindUndefinedDSColumns ==
    /\ pc = "call"
    /\ ret' = FindUndefinedDSColumns(args.requestedCols, args.definedCols)
    /\ pc' = "done"
    /\ UNCHANGED args
    /\ JitUnchanged

NextDS == CallFindUndefinedDSColumns

SpecDS == InitDS /\ [][NextDS]_vars

NoType == <<>>

NullTree == [null |-> TRUE, names |-> <<>>, type |-> NoType]
Tree(names, type) == [null |-> FALSE, names |-> names, type |-> type]

NoCustomColumns == [names |-> <<>>, type |-> NoType]
CustomColumns(names, type) == [names |-> names, type |-> type]

NullTypedDS == [null |-> TRUE, columns |-> <<>>, type |-> NoType]
TypedDS(columns, type) == [null |-> FALSE, columns |-> columns, type |-> type]

\* std::map::find on the registry of custom columns: a null pointer, or the
\* custom column with the type it declares
NullColumn == [null |-> TRUE, type |-> NoType]
FindCustomColumn(customColumns, name) ==
    IF Contains(customColumns.names, name)
    THEN [null |-> FALSE, type |-> customColumns.type]
    ELSE NullColumn

\* ColumnName2ColumnTypeName: the declared type by custom registry, then
\* dataset schema, then data-source schema; the empty string when none has it
ColumnName2ColumnTypeName(colName, tree, tmpBranch, ds) ==
    IF ~tmpBranch.null THEN tmpBranch.type
    ELSE IF ~tree.null /\ Contains(tree.names, colName) THEN tree.type
    ELSE IF ~ds.null /\ Contains(ds.columns, colName) THEN ds.type
    ELSE NoType

TreeInputs == {NullTree, Tree(<<<<"a">>>>, Lit("int"))}

CustomInputs ==
    {NoCustomColumns,
     CustomColumns(<<<<"a", "b">>>>, Lit("double")),
     CustomColumns(<<<<"a", "b">>>>, NoType)}

DSInputs ==
    {NullTypedDS,
     TypedDS(<<<<"a", ".", "b">>>>, Lit("float")),
     TypedDS(<<<<"a">>, <<"a", ".", "b">>>>, NoType)}

(***************************************************************************)
(* JitBuildAndBook                                                         *)
(***************************************************************************)
\* TClass::GetClass(type_info): a null pointer, or the class with its name
NullClass == [null |-> TRUE, name |-> NoType]
Class(name) == [null |-> FALSE, name |-> Lit(name)]

\* the loop retrieving the column type names: stops at the first column whose
\* type name is empty
RECURSIVE ColumnTypeNamesFrom(_, _, _, _, _)
ColumnTypeNamesFrom(columnTypeNames, bl, tree, customColumns, ds) ==
    IF bl = <<>> THEN Returned(columnTypeNames)
    ELSE LET columnTypeName ==
                 ColumnName2ColumnTypeName(Head(bl), tree,
                     FindCustomColumn(customColumns, Head(bl)), ds)
         IN  IF columnTypeName = NoType
             THEN Thrown(<<Lit("The type of column ")>> \o Emit(Head(bl))
                           \o <<Lit(" could not be guessed. Please specify one.")>>)
             ELSE ColumnTypeNamesFrom(Append(columnTypeNames, columnTypeName),
                                      Tail(bl), tree, customColumns, ds)

\* `for (auto &colType : columnTypeNames) createAction_str << ", " << colType`
RECURSIVE TypeArgsText(_)
TypeArgsText(columnTypeNames) ==
    IF columnTypeNames = <<>> THEN <<>>
    ELSE <<Lit(", ")>> \o Emit(Head(columnTypeNames))
             \o TypeArgsText(Tail(columnTypeNames))

\* `if (i != 0u) createAction_str << ", "; createAction_str << '"' << bl[i] << '"'`
RECURSIVE QuotedNamesText(_, _)
QuotedNamesText(bl, i) ==
    IF i > Len(bl) THEN <<>>
    ELSE (IF i # 1 THEN <<Lit(", ")>> ELSE <<>>)
             \o <<Lit("\"")>> \o Emit(bl[i]) \o <<Lit("\"")>>
             \o QuotedNamesText(bl, i + 1)

CreateActionStr(actionTypeName, columnTypeNames, prevNodeTypename, prevNode, bl, nSlots, actionResultTypeName, rOnHeap) ==
    <<Lit("ROOT::Internal::TDF::CallBuildAndBook"), Lit("<")>>
        \o Emit(actionTypeName)
        \o TypeArgsText(columnTypeNames)
        \o <<Lit(">(*reinterpret_cast<")>> \o Emit(prevNodeTypename)
        \o <<Lit("*>("), prevNode, Lit("), {")>>
        \o QuotedNamesText(bl, 1)
        \o <<Lit("}, "), Lit(ToString(nSlots)), Lit(", reinterpret_cast<")>>
        \o Emit(actionResultTypeName)
        \o <<Lit("*>("), rOnHeap, Lit("));")>>

\* a plausible slip: the two type_info parameters `art` and `at` mixed up
JitBuildAndBookSwapped(bl, prevNodeTypename, prevNode, art, at, rOnHeap, tree, nSlots, customColumns, ds) ==
    LET columnTypeNames == ColumnTypeNamesFrom(<<>>, bl, tree, customColumns, ds)
    IN  IF columnTypeNames.status = "throw" THEN columnTypeNames
        ELSE IF art.null
        THEN Thrown(<<Lit("An error occurred while inferring the result type of an operation.")>>)
        ELSE IF at.null
        THEN Thrown(<<Lit("An error occurred while inferring the action type of the operation.")>>)
        ELSE Returned(CreateActionStr(art.name, columnTypeNames.value,
                                      prevNodeTypename, prevNode, bl, nSlots,
                                      at.name, rOnHeap))

JitBuildAndBook(bl, prevNodeTypename, prevNode, art, at, rOnHeap, tree, nSlots, customColumns, ds) ==
    LET columnTypeNames == ColumnTypeNamesFrom(<<>>, bl, tree, customColumns, ds)
    IN  IF columnTypeNames.status = "throw" THEN columnTypeNames
        ELSE IF art.null
        THEN Thrown(<<Lit("An error occurred while inferring the result type of an operation.")>>)
        ELSE IF at.null
        THEN Thrown(<<Lit("An error occurred while inferring the action type of the operation.")>>)
        ELSE Returned(CreateActionStr(at.name, columnTypeNames.value,
                                      prevNodeTypename, prevNode, bl, nSlots,
                                      art.name, rOnHeap))

(***************************************************************************)
(* SpecBook: one call of JitBuildAndBook.                                  *)
(***************************************************************************)
BookInputs ==
    [bl : ColLists,
     prevNodeTypename : {Lit("FilterNode_7"), Lit("TLoopManager")},
     prevNode : {Lit("0x1000")},
     art : {NullClass, Class("TH1D")},
     at : {NullClass, Class("HistoAction")},
     rOnHeap : {Lit("0x2000")},
     tree : TreeInputs,
     nSlots : 1..MaxSlots,
     customColumns : CustomInputs,
     ds : DSInputs]

InitBook ==
    /\ pc = "call"
    /\ args \in BookInputs
    /\ ret = Returned(<<>>)
    /\ JitIdle

CallJitBuildAndBook ==
    /\ pc = "call"
    /\ ret' = JitBuildAndBook(args.bl, args.prevNodeTypename, args.prevNode,
                              args.art, args.at, args.rOnHeap, args.tree,
                              args.nSlots, args.customColumns, args.ds)
    /\ pc' = "done"
    /\ UNCHANGED args
    /\ JitUnchanged

NextBook == CallJitBuildAndBook

SpecBook == InitBook /\ [][NextBook]_vars

\* the items of a list separated by ", "
JoinComma(items) ==
    [i \in 1..(2 * Len(items) - 1) |->
        IF i % 2 = 1 THEN items[(i + 1) \div 2] ELSE Lit(", ")]

\* "c1", "c2", ..., "cn": four tokens a name (quote, name, quote, separator),
\* the last separator left out
QuotedList(c) ==
    [i \in 1..(IF c = <<>> THEN 0 ELSE 4 * Len(c) - 1) |->
        IF i % 4 = 0 THEN Lit(", ")
        ELSE IF i % 4 = 2 THEN c[(i + 2) \div 4]
        ELSE Lit("\"")]

BookColumnTypes ==
    [i \in 1..Len(args.bl) |->
        ColumnName2ColumnTypeName(args.bl[i], args.tree,
            FindCustomColumn(args.customColumns, args.bl[i]), args.ds)]

\* the string of the claim, for action type A, result type R, previous-node
\* type P, slot count N, column names c1..cn of types t1..tn
ExpectedCall(A, R, P, N, c, t) ==
    <<Lit("ROOT::Internal::TDF::CallBuildAndBook"), Lit("<")>>
        \o JoinComma(<<A>> \o t)
        \o <<Lit(">(*reinterpret_cast<"), P, Lit("*>("), args.prevNode, Lit("), {")>>
        \o QuotedList(c)
        \o <<Lit("}, "), Lit(ToString(N)), Lit(", reinterpret_cast<"), R,
             Lit("*>("), args.rOnHeap, Lit("));")>>

BookResolves ==
    /\ \A i \in 1..Len(args.bl) : BookColumnTypes[i] # NoType
    /\ ~args.art.null
    /\ ~args.at.null

C7_WitnessNoColumns ==
    /\ pc = "done"
    /\ BookResolves
    /\ args.bl = <<>>
    /\ ret.status = "return"

(***************************************************************************)
(* JitTransformation.  The interpreter (gInterpreter) is outside the file: *)
(* each request to it is one step, appended to `requests` with the outcome *)
(* the interpreter reports, which is any outcome it can report.            *)
(*   iNs         the function-static counter of scope names                *)
(*   nsHistory   the counter value each invocation so far has read         *)
(*   args, cur   the arguments and the locals of the invocation under way  *)
(*               (or of the last one)                                      *)
(*   requests    the interpreter requests of that invocation               *)
(*   graphNodes  how often the jitted Define/Filter call has run           *)
(*   ret         how the last finished invocation ended                    *)
(***************************************************************************)
kNoError == "kNoError"

\* TInterpreter::EErrorCode; in a message the enumerator stands for the
\* decimal number std::to_string gives
ErrorCodes == {kNoError, "kRecoverable"}

\* Long_t values Calc can hand back
RetVals == {0, 1}

JitNone == [status |-> "none", value |-> 0, what |-> <<>>]
JitReturned(retVal) == [status |-> "return", value |-> retVal, what |-> <<>>]
JitThrown(what) == [status |-> "throw", value |-> 0, what |-> what]

Request(method, text, ok, interpErrCode, retVal) ==
    [method |-> method, text |-> text, ok |-> ok, err |-> interpErrCode,
     retVal |-> retVal]

\* a plausible slip: `iNs` for `iNs++`
PostIncrementForgotten(n) == n

\* `iNs++` on an unsigned int: it wraps to 0 only after 2^32 invocations,
\* a count no run of MaxInvocations invocations comes near
PostIncrement(n) == n + 1

\* `ss << "__tdf_" << iNs`, then ss.str(): one string
NsName(n) == <<"__tdf_", ToString(n)>>

JitExprs ==
    {<<"b">>, <<"a">>, <<"a", "b">>, <<"a", ".", "b">>, <<"b", "+", "a">>}

JitInputs ==
    [methodName : {"Define", "Filter"},
     interfaceTypeName : {Lit("TInterface<TLoopManager>")},
     thisPtr : {Lit("0x1000")},
     name : {<<"b">>},
     expression : {e \in JitExprs : Len(e) <= MaxExprLen},
     tree : TreeInputs,
     custom : CustomInputs,
     returnTypeName : {Lit("TFilterBase")},
     ds : DSInputs]

\* the loop over usedBranches that resolves the type of each
UsedBranchesTypes(usedBranches, tree, tmpBookedBranches, ds) ==
    [i \in 1..Len(usedBranches) |->
        ColumnName2ColumnTypeName(usedBranches[i], tree,
            FindCustomColumn(tmpBookedBranches, usedBranches[i]), ds)]

\* `ss << brTypeName << " " << brName << ";\n"` for each used branch
RECURSIVE VariableLines(_, _)
VariableLines(usedBranches, usedBranchesTypes) ==
    IF usedBranches = <<>> THEN <<>>
    ELSE Emit(Head(usedBranchesTypes)) \o <<Lit(" ")>> \o Emit(Head(usedBranches))
             \o <<Lit(";\n")>>
             \o VariableLines(Tail(usedBranches), Tail(usedBranchesTypes))

VariableDeclarations(nsName, usedBranches, usedBranchesTypes) ==
    <<Lit("namespace "), nsName, Lit(" {\n")>>
        \o VariableLines(usedBranches, usedBranchesTypes)
        \o <<Lit("}")>>

ExpressionDeclaration(nsName, expression) ==
    <<Lit("namespace "), nsName, Lit("{ auto res = ")>>
        \o Emit(expression) \o <<Lit(";}\n")>>

\* `ss << usedBranchesTypes[i] << "& " << usedBranches[i] << ", "`
RECURSIVE LambdaParams(_, _)
LambdaParams(usedBranches, usedBranchesTypes) ==
    IF usedBranchesTypes = <<>> THEN <<>>
    ELSE Emit(Head(usedBranchesTypes)) \o <<Lit("& ")>> \o Emit(Head(usedBranches))
             \o <<Lit(", ")>>
             \o LambdaParams(Tail(usedBranches), Tail(usedBranchesTypes))

FilterLambda(usedBranches, usedBranchesTypes, expression) ==
    LET params == <<Lit("[](")>> \o LambdaParams(usedBranches, usedBranchesTypes)
    IN  (IF usedBranchesTypes # <<>> THEN SeekBack2(params) ELSE params)
            \o <<Lit("){ return ")>> \o Emit(expression) \o <<Lit(";}")>>

\* `ss << "\"" << brName << "\", "` for each used branch
RECURSIVE QuotedBranches(_)
QuotedBranches(usedBranches) ==
    IF usedBranches = <<>> THEN <<>>
    ELSE <<Lit("\"")>> \o Emit(Head(usedBranches)) \o <<Lit("\", ")>>
             \o QuotedBranches(Tail(usedBranches))

\* the text handed to Calc
Invocation(in, usedBranches, usedBranchesTypes, exprNeedsVariables) ==
    LET filterLambda == FilterLambda(usedBranches, usedBranchesTypes, in.expression)
        targetTypeName ==
            <<Lit("ROOT::Experimental::TDF::TInterface<")>>
                \o Emit(in.returnTypeName) \o <<Lit(">")>>
        upToNames ==
            targetTypeName
                \o <<Lit("((("), in.interfaceTypeName, Lit("*)"), in.thisPtr,
                     Lit(")->"), Lit(in.methodName), Lit("(")>>
                \o (IF in.methodName = "Define"
                    THEN <<Lit("\"")>> \o Emit(in.name) \o <<Lit("\", ")>>
                    ELSE <<>>)
                \o filterLambda \o <<Lit(", {")>>
                \o QuotedBranches(usedBranches)
    IN  (IF exprNeedsVariables THEN SeekBack2(upToNames) ELSE upToNames)
            \o <<Lit("}")>>
            \o (IF in.methodName = "Filter"
                THEN <<Lit(", \"")>> \o Emit(in.name) \o <<Lit("\"")>>
                ELSE <<>>)
            \o <<Lit("));")>>

InitJit ==
    /\ pc = "idle"
    /\ args = NoCall
    /\ ret = JitNone
    /\ JitIdle

\* entry of JitTransformation up to the first interpreter request
JitEnter ==
    /\ pc = "idle"
    /\ Len(nsHistory) < MaxInvocations
    /\ \E in \in JitInputs :
          LET dsColumns == IF in.ds.null THEN <<>> ELSE in.ds.columns
              branches == IF in.tree.null THEN NullBranches
                          ELSE BranchArray(in.tree.names)
              usedBranches == FindUsedColumnNames(in.expression, branches,
                                                  in.custom.names, dsColumns)
              exprNeedsVariables == usedBranches # <<>>
          IN  /\ args' = in
              /\ cur' = [op |-> "JitTransformation",
                         usedBranches |-> usedBranches,
                         exprNeedsVariables |-> exprNeedsVariables,
                         nsName |-> NsName(iNs),
                         usedBranchesTypes |->
                             IF exprNeedsVariables
                             THEN UsedBranchesTypes(usedBranches, in.tree,
                                                    in.custom, in.ds)
                             ELSE <<>>]
              /\ pc' = IF exprNeedsVariables THEN "ProcessLine" ELSE "Declare"
    /\ nsHistory' = Append(nsHistory, iNs)
    /\ iNs' = PostIncrement(iNs)
    /\ requests' = <<>>
    /\ UNCHANGED <<ret, graphNodes>>

\* a plausible slip: the error code of ProcessLine is not looked at
JitProcessLineUnchecked ==
    /\ pc = "ProcessLine"
    /\ \E interpErrCode \in ErrorCodes :
          requests' = Append(requests,
              Request("ProcessLine",
                      VariableDeclarations(cur.nsName, cur.usedBranches,
                                           cur.usedBranchesTypes),
                      interpErrCode = kNoError, interpErrCode, 0))
    /\ pc' = "Declare"
    /\ UNCHANGED <<args, cur, ret, iNs, nsHistory, graphNodes>>

\* gInterpreter->ProcessLine(variableDeclarations) and the check of its code
JitProcessLine ==
    /\ pc = "ProcessLine"
    /\ \E interpErrCode \in ErrorCodes :
          LET variableDeclarations ==
                  VariableDeclarations(cur.nsName, cur.usedBranches,
                                       cur.usedBranchesTypes)
          IN  /\ requests' = Append(requests,
                     Request("ProcessLine", variableDeclarations,
                             interpErrCode = kNoError, interpErrCode, 0))
              /\ IF kNoError # interpErrCode
                 THEN /\ ret' = JitThrown(
                             <<Lit("Cannot declare these variables:  ")>>
                                 \o variableDeclarations
                                 \o <<Lit("\nInterpreter error code is "),
                                      Lit(interpErrCode), Lit(".")>>)
                      /\ pc' = "idle"
                 ELSE /\ pc' = "Declare"
                      /\ UNCHANGED ret
    /\ UNCHANGED <<args, cur, iNs, nsHistory, graphNodes>>

\* gInterpreter->Declare of the expression alone and the check of its result
JitDeclare ==
    /\ pc = "Declare"
    /\ \E declared \in BOOLEAN :
          LET text == ExpressionDeclaration(cur.nsName, args.expression)
          IN  /\ requests' = Append(requests,
                     Request("Declare", text, declared, kNoError, 0))
              /\ IF ~declared
                 THEN /\ ret' = JitThrown(
                             <<Lit("Cannot interpret this expression: "), Lit(" ")>>
                                 \o text)
                      /\ pc' = "idle"
                 ELSE /\ pc' = "Calc"
                      /\ UNCHANGED ret
    /\ UNCHANGED <<args, cur, iNs, nsHistory, graphNodes>>

\* a plausible slip: `&&` for `||` in the check of Calc's outcome
CalcFailedBoth(interpErrCode, retVal) ==
    kNoError # interpErrCode /\ retVal = 0

\* `TInterpreter::EErrorCode::kNoError != interpErrCode || !retVal`
CalcFailed(interpErrCode, retVal) ==
    kNoError # interpErrCode \/ retVal = 0

\* gInterpreter->Calc of the invocation and the check of its outcome; the
\* jitted Define/Filter call may or may not have run, and has run when a
\* non-zero value comes back
JitCalc ==
    /\ pc = "Calc"
    /\ \E interpErrCode \in ErrorCodes, retVal \in RetVals, invoked \in BOOLEAN :
          LET text == Invocation(args, cur.usedBranches, cur.usedBranchesTypes,
                                 cur.exprNeedsVariables)
          IN  /\ retVal # 0 => invoked
              /\ requests' = Append(requests,
                     Request("Calc", text, interpErrCode = kNoError,
                             interpErrCode, retVal))
              /\ graphNodes' = graphNodes + (IF invoked THEN 1 ELSE 0)
              /\ IF CalcFailed(interpErrCode, retVal)
                 THEN ret' = JitThrown(
                          <<Lit("Cannot interpret the invocation to "),
                            Lit(args.methodName), Lit(":  ")>>
                              \o text
                              \o (IF kNoError # interpErrCode
                                  THEN <<Lit("\nInterpreter error code is "),
                                         Lit(interpErrCode), Lit(".")>>
                                  ELSE <<>>))
                 ELSE ret' = JitReturned(retVal)
    /\ pc' = "idle"
    /\ UNCHANGED <<args, cur, iNs, nsHistory>>

NextJit == JitEnter \/ JitProcessLine \/ JitDeclare \/ JitCalc

SpecJit == InitJit /\ [][NextJit]_vars

(***************************************************************************)
(* Properties of JitTransformation.                                        *)
(***************************************************************************)
Invoking == cur # NoCall

Last(s) == s[Len(s)]

IsSubText(part, text) ==
    \E k \in 0..(Len(text) - Len(part)) :
        \A i \in 1..Len(part) : text[k + i] = part[i]

SomeTypeUnresolved ==
    /\ Invoking
    /\ \E i \in 1..Len(cur.usedBranches) : cur.usedBranchesTypes[i] = NoType

\* C5: if the type of a referenced column resolves to no type name, the
\* invocation aborts before any fragment is submitted to the interpreter: no
\* variable declaration, no expression declaration, no Define/Filter call.
C5_AbortsBeforeAnyRequest == SomeTypeUnresolved => requests = <<>>

SucceededBefore(method, i) ==
    \E j \in 1..(i - 1) : requests[j].method = method /\ requests[j].ok

DeclarationsSucceeded ==
    /\ cur.exprNeedsVariables => SucceededBefore("ProcessLine", Len(requests) + 1)
    /\ SucceededBefore("Declare", Len(requests) + 1)

CalcOnlyAfterDeclarations ==
    \A i \in 1..Len(requests) :
        requests[i].method = "Calc" =>
            /\ cur.exprNeedsVariables => SucceededBefore("ProcessLine", i)
            /\ SucceededBefore("Declare", i)
            /\ \A j \in 1..(i - 1) : requests[j].ok

VariablesDeclaredOnlyWhenNeeded ==
    \A i \in 1..Len(requests) :
        requests[i].method = "ProcessLine" => cur.exprNeedsVariables

FailedDeclarationRaises ==
    \A i \in 1..Len(requests) :
        (requests[i].method # "Calc" /\ ~requests[i].ok) =>
            /\ i = Len(requests)
            /\ pc = "idle"
            /\ ret.status = "throw"

\* C6: the Calc request is submitted only after the variable declaration
\* (issued only when the expression references a column) and the expression
\* declaration have both succeeded; when one of them fails an error is raised,
\* nothing more is submitted and the graph is not extended.
C6_CalcAfterDeclarations ==
    /\ [](CalcOnlyAfterDeclarations /\ VariablesDeclaredOnlyWhenNeeded
            /\ FailedDeclarationRaises)
    /\ [][graphNodes' # graphNodes => (pc = "Calc" /\ DeclarationsSucceeded)]_vars

C6_Witness ==
    /\ pc = "idle"
    /\ Len(requests) = 3
    /\ Last(requests).method = "Calc"
    /\ graphNodes > 0

C6_WitnessFailedDeclaration ==
    /\ pc = "idle"
    /\ Len(requests) = 2
    /\ ~Last(requests).ok
    /\ Last(requests).method = "Declare"
    /\ ret.status = "throw"
    /\ graphNodes = 0

\* C9: no two invocations use the same scope name: the counter is read and
\* incremented exactly once per invocation, before any interpreter request,
\* whether or not the expression references columns and however the
\* invocation ends, so the scope index strictly increases.
C9_ScopeNamesDistinct ==
    /\ \A i, j \in 1..Len(nsHistory) : i < j => nsHistory[i] < nsHistory[j]
    /\ iNs = Len(nsHistory)
    /\ Invoking => cur.nsName = NsName(Last(nsHistory))
    /\ \A i \in 1..Len(requests) :
          requests[i].method # "Calc" => requests[i].text[2] = NsName(Last(nsHistory))

C9_Witness ==
    /\ Len(nsHistory) = MaxInvocations
    /\ pc = "idle"
    /\ ret.status = "throw"
    /\ ~cur.exprNeedsVariables

\* C10: a handle is returned only when Calc reported no error and a non-zero
\* value, so a returned value is never zero; when Calc reports an error code
\* or yields zero, an error is raised whose message names the invoked method
\* and contains the generated call text.
C10_ReturnsOnlyNonZero ==
    (pc = "idle" /\ Invoking) =>
        /\ ret.status = "return" =>
              /\ requests # <<>>
              /\ Last(requests).method = "Calc"
              /\ Last(requests).err = kNoError
              /\ Last(requests).retVal # 0
              /\ ret.value = Last(requests).retVal
        /\ (/\ requests # <<>>
            /\ Last(requests).method = "Calc"
            /\ (Last(requests).err # kNoError \/ Last(requests).retVal = 0)) =>
              /\ ret.status = "throw"
              /\ Contains(ret.what, Lit(args.methodName))
              /\ IsSubText(Last(requests).text, ret.what)

C10_Witness ==
    /\ pc = "idle"
    /\ Invoking
    /\ ret.status = "return"
    /\ cur.exprNeedsVariables

C10_WitnessZero ==
    /\ pc = "idle"
    /\ Invoking
    /\ Last(requests).method = "Calc"
    /\ Last(requests).err = kNoError
    /\ Last(requests).retVal = 0
    /\ ret.status = "throw"

====
